---- MODULE Spec2Model ----
(***************************************************************************)
(* YC Radar (src/yc_radar.py): change detection against a remote catalog,  *)
(* a persisted known-id state, and webhook delivery with a persisted       *)
(* pending batch.  One run of main() is a sequence of steps (pc); the      *)
(* remote catalog and the webhook sink are the environment, whose answers  *)
(* are drawn from bounded sets.                                            *)
(***************************************************************************)
EXTENDS Integers, Sequences, FiniteSets, TLC

\* ------------------------------------------------------------------ bounds
\* most hits one query (a window query, the whole enumeration) returns
MaxHits == 2
\* most batches (facet values) the enumeration is partitioned into
MaxBatches == 2
\* largest nbHits the remote reports
MaxCount == 1
\* largest wall-clock second save_state reads
MaxTime == 1

\* ------------------------------------------------------- program constants
\* default of max_retries in algolia_query and send_webhook
max_retries == 3

\* ------------------------------------------------------------------- hits
\* An Algolia hit, reduced to the fields the detection reads.  objectID is a
\* string ("" also stands for an absent objectID: both are falsy), id is an
\* integer (0 also stands for an absent id), name tells two records apart.
Hits ==
  { [objectID |-> "a", id |-> 0, name |-> "A"],
    [objectID |-> "a", id |-> 7, name |-> "A2"],
    [objectID |-> "",  id |-> 7, name |-> "S"],
    [objectID |-> "",  id |-> 0, name |-> "Z"] }

\* str() of the integers that occur as ids
IntToStr(n) == IF n = 7 THEN "7" ELSE "0"

\* hit_id: str(hit.get("objectID") or hit.get("id") or "")
hit_id(h) ==
  IF h.objectID # "" THEN h.objectID
  ELSE IF h.id # 0 THEN IntToStr(h.id)
  ELSE ""

\* the id strings in the order sorted() gives them
IdOrder == << "", "7", "a" >>

Range(s) == { s[i] : i \in 1..Len(s) }

SeqsUpTo(S, n) == UNION { [1..k -> S] : k \in 0..n }

\* set(hit_id(h) for h in hits)
IdsOf(hits) == { hit_id(hits[i]) : i \in 1..Len(hits) }

\* sorted(known_ids) of save_state
Sorted(S) == SelectSeq(IdOrder, LAMBDA x : x \in S)

\* ---------------------------------------------------------- remote catalog
\* algolia_query: attempt 1..max_retries; `fails` attempts fail before one
\* succeeds; the last attempt's failure is raised
AlgoliaQuery(fails, response) ==
  IF fails < max_retries THEN [ok |-> TRUE, count |-> response.count, hits |-> response.hits]
  ELSE [ok |-> FALSE, count |-> 0, hits |-> << >>]

FailCounts == 0..max_retries

\* fetch_count: nbHits of a hitsPerPage=0 query
fetch_count(fails, nbHits) == AlgoliaQuery(fails, [count |-> nbHits, hits |-> << >>])

\* fetch_since: the hits of the launched_at > timestamp query
fetch_since(fails, hits) == AlgoliaQuery(fails, [count |-> 0, hits |-> hits])

RECURSIVE Concat(_)
Concat(ss) == IF ss = << >> THEN << >> ELSE Head(ss) \o Concat(Tail(ss))

\* fetch_all_companies: the facet query, then one query per batch, the hits
\* concatenated; failedQuery is the index of the first query that exhausts its
\* retries (0: none, 1: the facet query, k+1: batch k)
fetch_all_companies(failedQuery, batches) ==
  IF failedQuery > 0 THEN AlgoliaQuery(max_retries, [count |-> 0, hits |-> << >>])
  ELSE AlgoliaQuery(0, [count |-> 0, hits |-> Concat(batches)])

CountOutcomes == { fetch_count(f, n) : f \in FailCounts, n \in 0..MaxCount }

SinceOutcomes == { fetch_since(f, hs) : f \in FailCounts, hs \in SeqsUpTo(Hits, MaxHits) }

BatchLists ==
  { bs \in SeqsUpTo(SeqsUpTo(Hits, MaxHits), MaxBatches) : Len(Concat(bs)) <= MaxHits }

AllOutcomes ==
  { fetch_all_companies(q, bs) : q \in 0..(MaxBatches + 1), bs \in BatchLists }

\* ------------------------------------------------------------------ files
NoFile == [status |-> "absent", known_ids |-> << >>, total_count |-> 0,
           last_run_timestamp |-> 0]

\* a record whose count is the number of ids
StateRecordLenCount(ids, total_count, now) ==
  [status |-> "ok", known_ids |-> Sorted(ids), total_count |-> Cardinality(ids),
   last_run_timestamp |-> now]

\* the record save_state dumps
StateRecord(ids, total_count, now) ==
  [status |-> "ok", known_ids |-> Sorted(ids), total_count |-> total_count,
   last_run_timestamp |-> now]

NoPending == [status |-> "absent", items |-> << >>]

\* save_pending
PendingRecord(payload) == [status |-> "ok", items |-> payload]

\* a retry block that clears the pending file whatever failed
RetryOutcomeClear(failed_hits) == NoPending

\* main, after the retry of the pending batch: save_pending(failed) or clear_pending
RetryOutcome(failed_hits) ==
  IF failed_hits # << >> THEN PendingRecord(failed_hits) ELSE NoPending

\* main, after the delivery of the new hits: save_pending(failed) or clear_pending
DeliveryOutcome(failed_hits) ==
  IF failed_hits # << >> THEN PendingRecord(failed_hits) ELSE NoPending

\* a file a killed writer left truncated or half written
CorruptFile == [status |-> "corrupt", known_ids |-> << >>, total_count |-> 0,
                last_run_timestamp |-> 0]

CorruptPending == [status |-> "corrupt", items |-> << >>]

\* ------------------------------------------------------------------ state
\* The locals of a run hold a value while the code can still read it and are
\* back at their defaults once main has no further use of them.
VARIABLES
  state_file,     \* known_companies.json
  pending_file,   \* pending_webhook.json
  args,           \* the parsed options of the run
  pc,             \* position of the run in main / detect_new
  exit_code,      \* -1 while running; 0, 1; 137 when killed
  pending,        \* main: the loaded pending batch
  todo,           \* send_all_webhooks: hits not yet iterated
  sent,           \* send_all_webhooks: sent
  failed,         \* send_all_webhooks: failed
  state,          \* detect_new: the loaded state
  known_ids,      \* detect_new / main: known_ids
  current_count,  \* detect_new / main: current_count
  recent_hits,    \* detect_new: recent_hits
  all_hits,       \* seed / detect_new: all_hits
  new_hits,       \* detect_new / main: new_hits
  calls,          \* the catalog queries detection issued in this run, in order
  log,            \* the delivery attempts of the current send_all_webhooks call
  startPending,   \* the persisted pending batch as the run found it
  retryFailed,    \* the hits whose retry from the pending batch failed in this run
  crashSaved,     \* the followed id a run had saved as new without delivering it
  reseedDropped   \* crashSaved, once a later force-seed has left it out

vars == << state_file, pending_file, args, pc, exit_code, pending, todo, sent,
           failed, state, known_ids, current_count, recent_hits, all_hits,
           new_hits, calls, log, startPending, retryFailed, crashSaved,
           reseedDropped >>

files == << state_file, pending_file >>
sender == << todo, sent, failed, log >>
detection == << state, known_ids, current_count, recent_hits, all_hits, new_hits, calls >>
ghosts == << crashSaved, reseedDropped >>

NoArgs == [webhook_url |-> FALSE, dry_run |-> FALSE, seed |-> FALSE, full_fetch |-> FALSE]

Init ==
  /\ state_file = NoFile
  /\ pending_file = NoPending
  /\ args = NoArgs
  /\ pc = "idle"
  /\ exit_code = 0
  /\ pending = << >>
  /\ todo = << >>
  /\ sent = 0
  /\ failed = << >>
  /\ state = NoFile
  /\ known_ids = {}
  /\ current_count = 0
  /\ recent_hits = << >>
  /\ all_hits = << >>
  /\ new_hits = << >>
  /\ calls = << >>
  /\ log = << >>
  /\ startPending = << >>
  /\ retryFailed = << >>
  /\ crashSaved = {}
  /\ reseedDropped = {}

\* ------------------------------------------------------- detection helpers
\* a load_state that takes an unparseable file for an empty record
load_state_swallows(file) == FALSE

\* load_state: json.load raises on a file that does not parse
load_state_raises(file) == file.status = "corrupt"

\* set(str(kid) for kid in state.get("known_ids", []))
LoadedIds(st) == Range(st.known_ids)

\* the ids of a seed that keeps the empty id
SeedIdsAll(hits) == IdsOf(hits)

\* seed: list(set(kid for kid in known_ids if kid))
SeedIds(hits) == { k \in IdsOf(hits) : k # "" }

\* a count check with the comparison turned around
CountUnchangedNever(count, stored_count, force_full) ==
  count # stored_count /\ ~force_full

\* detect_new: current_count == stored_count and not force_full
CountUnchanged(count, stored_count, force_full) ==
  count = stored_count /\ ~force_full

\* detect_new: not force_full and last_timestamp > 0
UseWindow(force_full, last_timestamp) ==
  ~force_full /\ last_timestamp > 0

\* a window result that is not filtered by the known ids
WindowNewAll(hits, known) == hits

\* a window result that stops at the first unknown hit
WindowNewFirst(hits, known) ==
  LET unknown == SelectSeq(hits, LAMBDA h : hit_id(h) \notin known)
  IN  IF unknown = << >> THEN unknown ELSE << Head(unknown) >>

\* detect_new: [h for h in recent_hits if hit_id(h) not in known_ids]
WindowNew(hits, known) == SelectSeq(hits, LAMBDA h : hit_id(h) \notin known)

\* a window path that forgets to add the new ids
WindowKnownSame(known, new) == known

\* detect_new: known_ids | set(hit_id(h) for h in new_hits)
WindowKnown(known, new) == known \cup IdsOf(new)

\* a zero-result window that falls back whenever the count changed
WindowFallsBackOnChange(count, stored_count) == count # stored_count

\* detect_new: current_count > stored_count, the zero-result window falls back
WindowFallsBack(count, stored_count) == count > stored_count

\* detect_new: new_ids = all_ids - known_ids; [h for h in all_hits if hit_id(h) in new_ids]
FullNew(hits, known) ==
  LET new_ids == IdsOf(hits) \ known
  IN  SelectSeq(hits, LAMBDA h : hit_id(h) \in new_ids)

\* a fallback that replaces the known ids by the fetched ones
FullKnownReplace(known, hits) == IdsOf(hits)

\* detect_new: known_ids | all_ids
FullKnown(known, hits) == known \cup IdsOf(hits)

\* ---------------------------------------------------------------- delivery
\* send_webhook: True when an attempt succeeds within max_retries
send_webhook(fails) == fails < max_retries

\* a dry run that delivers all the same
MayDeliverWithUrl(a) == a.webhook_url

\* main: if webhook_url and not args.dry_run
MayDeliver(a) == a.webhook_url /\ ~a.dry_run

ArgSets == [webhook_url : BOOLEAN, dry_run : BOOLEAN, seed : BOOLEAN, full_fetch : BOOLEAN]

\* the locals of send_all_webhooks and of the retry block are dropped
DropSender ==
  /\ pending' = << >>
  /\ todo' = << >>
  /\ sent' = 0
  /\ failed' = << >>
  /\ log' = << >>

\* the locals of detect_new are dropped
DropDetection ==
  /\ state' = NoFile
  /\ known_ids' = {}
  /\ current_count' = 0
  /\ recent_hits' = << >>
  /\ all_hits' = << >>
  /\ calls' = << >>

\* the run returns, exits or dies: the process and its locals are gone
Exit(code) ==
  /\ pc' = "idle"
  /\ exit_code' = code
  /\ args' = NoArgs
  /\ DropSender
  /\ DropDetection
  /\ new_hits' = << >>
  /\ startPending' = << >>
  /\ retryFailed' = << >>

\* -------------------------------------------------------------------- main
\* main, up to load_pending: a run starts with arguments a
StartRun(a) ==
  /\ pc = "idle"
  /\ UNCHANGED << files, ghosts, sent, failed, log, detection, retryFailed >>
  /\ IF MayDeliver(a) /\ pending_file.status = "corrupt"
       THEN \* json.load raises: the run dies with a traceback
            /\ exit_code' = 1
            /\ UNCHANGED << args, pc, pending, todo, startPending >>
       ELSE /\ args' = a
            /\ exit_code' = -1
            /\ startPending' = pending_file.items
            /\ pending' = IF MayDeliver(a) THEN pending_file.items ELSE << >>
            /\ todo' = IF MayDeliver(a) THEN pending_file.items ELSE << >>
            /\ pc' = IF MayDeliver(a) /\ pending_file.items # << >> THEN "drain" ELSE "detect"

\* send_all_webhooks, one iteration: hit h is offered to the sink
Send(h, ok) ==
  /\ pc \in {"drain", "deliver"}
  /\ todo # << >>
  /\ h = Head(todo)
  /\ todo' = Tail(todo)
  /\ sent' = IF ok THEN sent + 1 ELSE sent
  /\ failed' = IF ok THEN failed ELSE Append(failed, h)
  /\ log' = Append(log, [hit |-> h, ok |-> ok])
  /\ UNCHANGED << files, args, pc, exit_code, pending, detection, startPending,
                  retryFailed, ghosts >>

SendNext == \E h \in Hits, fails \in FailCounts : Send(h, send_webhook(fails))

\* main: the pending batch has been iterated
DrainFinish ==
  /\ pc = "drain"
  /\ todo = << >>
  /\ pending_file' = RetryOutcome(failed)
  /\ retryFailed' = failed
  /\ pc' = "detect"
  /\ UNCHANGED << state_file, args, exit_code, pending, sender, detection,
                  startPending, ghosts >>

\* main: --seed, else detect_new's load_state
BeginDetect ==
  /\ pc = "detect"
  /\ UNCHANGED << files, ghosts >>
  /\ IF ~args.seed /\ load_state_raises(state_file)
       THEN \* json.load raises: the run dies with a traceback
            Exit(1)
       ELSE /\ DropSender
            /\ startPending' = << >>
            /\ UNCHANGED << args, exit_code, current_count, recent_hits, all_hits,
                            new_hits, calls, retryFailed >>
            /\ IF args.seed \/ state_file.status = "absent"
                 THEN /\ pc' = "seed"
                      /\ UNCHANGED << state, known_ids >>
                 ELSE /\ state' = state_file
                      /\ known_ids' = LoadedIds(state_file)
                      /\ pc' = "count_check"

\* seed: all_hits = fetch_all_companies(); total = fetch_count(); save_state;
\* then main returns (--seed), or detect_new returns [], set(known_ids),
\* len(known_ids)
Seed ==
  /\ pc = "seed"
  /\ UNCHANGED pending_file
  /\ \E ra \in AllOutcomes, rc \in CountOutcomes, now \in 0..MaxTime :
       IF ~ra.ok \/ ~rc.ok
         THEN /\ Exit(1)
              /\ UNCHANGED << state_file, ghosts >>
         ELSE /\ state_file' = StateRecord(SeedIds(ra.hits), rc.count, now)
              /\ IF args.seed
                   THEN /\ Exit(0)
                        /\ reseedDropped' = reseedDropped \cup (crashSaved \ SeedIds(ra.hits))
                        /\ UNCHANGED crashSaved
                   ELSE /\ calls' = << "all", "count" >>
                        /\ all_hits' = ra.hits
                        /\ known_ids' = SeedIds(ra.hits)
                        /\ current_count' = Cardinality(SeedIds(ra.hits))
                        /\ new_hits' = << >>
                        /\ pc' = "save"
                        /\ UNCHANGED << args, exit_code, pending, sender, state,
                                        recent_hits, startPending, retryFailed, ghosts >>

\* detect_new, phase 1: current_count = fetch_count()
CountCheck ==
  /\ pc = "count_check"
  /\ UNCHANGED << files, ghosts >>
  /\ \E r \in CountOutcomes :
       IF ~r.ok
         THEN Exit(1)
         ELSE /\ calls' = Append(calls, "count")
              /\ current_count' = r.count
              /\ pc' = IF CountUnchanged(r.count, state.total_count, args.full_fetch)
                         THEN "save"
                         ELSE IF UseWindow(args.full_fetch, state.last_run_timestamp)
                                THEN "window"
                                ELSE "full"
              /\ UNCHANGED << args, exit_code, pending, sender, state, known_ids,
                              recent_hits, all_hits, new_hits, startPending, retryFailed >>

\* detect_new, phase 2: recent_hits = fetch_since(last_timestamp)
WindowQuery ==
  /\ pc = "window"
  /\ UNCHANGED << files, ghosts >>
  /\ \E r \in SinceOutcomes :
       IF ~r.ok
         THEN Exit(1)
         ELSE /\ calls' = Append(calls, "since")
              /\ UNCHANGED << args, exit_code, pending, sender, state, current_count,
                              all_hits, startPending, retryFailed >>
              /\ recent_hits' = r.hits
              /\ IF WindowNew(r.hits, known_ids) # << >>
                   THEN /\ new_hits' = WindowNew(r.hits, known_ids)
                        /\ known_ids' = WindowKnown(known_ids, WindowNew(r.hits, known_ids))
                        /\ pc' = "save"
                   ELSE /\ new_hits' = << >>
                        /\ UNCHANGED known_ids
                        /\ pc' = IF WindowFallsBack(current_count, state.total_count)
                                   THEN "full" ELSE "save"

\* detect_new, fallback: all_hits = fetch_all_companies()
FullFetch ==
  /\ pc = "full"
  /\ UNCHANGED << files, ghosts >>
  /\ \E r \in AllOutcomes :
       IF ~r.ok
         THEN Exit(1)
         ELSE /\ calls' = Append(calls, "all")
              /\ all_hits' = r.hits
              /\ recent_hits' = << >>
              /\ new_hits' = FullNew(r.hits, known_ids)
              /\ known_ids' = FullKnown(known_ids, r.hits)
              /\ pc' = "save"
              /\ UNCHANGED << args, exit_code, pending, sender, state, current_count,
                              startPending, retryFailed >>

\* main: save_state, then the returns before delivery, or send_all_webhooks starts
SaveStateStep ==
  /\ pc = "save"
  /\ UNCHANGED pending_file
  /\ \E now \in 0..MaxTime :
       state_file' = StateRecord(known_ids, current_count, now)
  /\ IF new_hits = << >> \/ ~MayDeliver(args)
       THEN Exit(0)
       ELSE /\ todo' = new_hits
            /\ sent' = 0
            /\ failed' = << >>
            /\ log' = << >>
            /\ pc' = "deliver"
            /\ DropDetection
            /\ UNCHANGED << args, exit_code, pending, new_hits, startPending, retryFailed >>

SaveState == SaveStateStep /\ UNCHANGED ghosts

\* main: the new hits have been iterated
DeliverFinish ==
  /\ pc = "deliver"
  /\ todo = << >>
  /\ UNCHANGED << state_file, ghosts >>
  /\ pending_file' = DeliveryOutcome(failed)
  /\ IF failed # << >> THEN Exit(1) ELSE Exit(0)

Next ==
  \/ \E a \in ArgSets : StartRun(a)
  \/ SendNext
  \/ DrainFinish
  \/ BeginDetect
  \/ Seed
  \/ CountCheck
  \/ WindowQuery
  \/ FullFetch
  \/ SaveState
  \/ DeliverFinish

Spec == Init /\ [][Next]_vars

\* ------------------------------------------------------------------ kills
\* a killed run had saved ids as new and not delivered them: one of them is
\* followed from then on, unless one is being followed already
Remember(ids) ==
  \/ UNCHANGED ghosts
  \/ /\ crashSaved \subseteq reseedDropped
     /\ \E id \in ids :
          /\ crashSaved' = {id}
          /\ reseedDropped' = {}

\* the process is killed between two steps: the files stay as they are
Kill ==
  /\ pc # "idle"
  /\ Exit(137)
  /\ UNCHANGED files
  /\ IF pc = "deliver" THEN Remember(IdsOf(new_hits)) ELSE UNCHANGED ghosts

\* the process is killed inside main's save_state: open(path, "w") has
\* truncated the file, json.dump has written all of the record or not
KillInSaveState ==
  /\ pc = "save"
  /\ Exit(137)
  /\ UNCHANGED pending_file
  /\ \E now \in 0..MaxTime, whole \in BOOLEAN :
       /\ state_file' = IF whole THEN StateRecord(known_ids, current_count, now)
                        ELSE CorruptFile
       /\ IF whole THEN Remember(IdsOf(new_hits)) ELSE UNCHANGED ghosts

\* the process is killed inside save_pending, likewise
KillInSavePending ==
  /\ pc \in {"drain", "deliver"}
  /\ todo = << >>
  /\ failed # << >>
  /\ Exit(137)
  /\ UNCHANGED state_file
  /\ \E whole \in BOOLEAN :
       pending_file' = IF whole THEN PendingRecord(failed) ELSE CorruptPending
  /\ IF pc = "deliver" THEN Remember(IdsOf(new_hits)) ELSE UNCHANGED ghosts

CrashNext ==
  \/ Next
  \/ Kill
  \/ KillInSaveState
  \/ KillInSavePending

\* runs that may be killed at any point
CrashSpec == Init /\ [][CrashNext]_vars

\* ------------------------------------------------ runs that do not deliver
\* main's save_state in a run with --dry-run or without a webhook URL: one of
\* the ids it saves as new, and that the pending batch does not hold, may be
\* followed from then on
SaveStateFollowed ==
  /\ SaveStateStep
  /\ IF ~MayDeliver(args)
       THEN Remember(IdsOf(new_hits) \ IdsOf(pending_file.items))
       ELSE UNCHANGED ghosts

FollowNext ==
  \/ \E a \in ArgSets : StartRun(a)
  \/ SendNext
  \/ DrainFinish
  \/ BeginDetect
  \/ Seed
  \/ CountCheck
  \/ WindowQuery
  \/ FullFetch
  \/ SaveStateFollowed
  \/ DeliverFinish

\* runs of which none is killed, with the ids of non-delivering runs followed
FollowSpec == Init /\ [][FollowNext]_vars

\* ------------------------------------------------------- repeated fair runs
\* runs with a webhook configured and without --dry-run
LiveArgs == { a \in ArgSets : a.webhook_url /\ ~a.dry_run }

LiveNext ==
  \/ \E a \in LiveArgs : StartRun(a)
  \/ SendNext
  \/ DrainFinish
  \/ BeginDetect
  \/ Seed
  \/ CountCheck
  \/ WindowQuery
  \/ FullFetch
  \/ SaveState
  \/ DeliverFinish

\* the sink accepts the delivery of hit h
SendOk(h) == Send(h, TRUE)

\* Runs are started again and again and none is killed; a hit that is offered
\* to the sink again and again is accepted at some time.
LiveSpec ==
  /\ Init
  /\ [][LiveNext]_vars
  /\ WF_vars(LiveNext)
  /\ \A h \in Hits : SF_vars(SendOk(h))

\* ----------------------------------------------------------------- claims
ReturnedNew(h) == pc = "save" /\ h \in Range(new_hits)

Delivered(h) == \E i \in 1..Len(log) : log[i].hit = h /\ log[i].ok

\* C1: every entity a run's detect_new returned as new is eventually delivered
\* successfully, in that run or from the pending batch in a later one, when runs
\* are repeated with delivery enabled, none is killed and the sink eventually
\* accepts what it is offered.
C1_EventualDelivery == \A h \in Hits : ReturnedNew(h) ~> Delivered(h)

\* C2: an entity of the persisted pending batch whose retry failed in the run
\* is still in the persisted pending batch when the run returns or exits,
\* whatever detection found and however the delivery of the new hits went.
C2_NoSilentDrop ==
  [][(pc # "idle" /\ pc' = "idle")
       => \A i \in 1..Len(retryFailed) : retryFailed[i] \in Range(pending_file'.items)]_vars

\* the known ids persisted when the run started, while detect_new has returned
\* and main has not saved yet
StoredIds == Range(state_file.known_ids)

Returned == pc = "save" /\ state.status = "ok"

\* C3: detect_new returns no entity whose id is in the known_ids persisted at
\* the start of the run, on the window path and on the full-fetch path.
C3_NoDuplicateNotification ==
  Returned => \A i \in 1..Len(new_hits) : hit_id(new_hits[i]) \notin StoredIds

C3_Witness ==
  /\ Returned
  /\ new_hits # << >>
  /\ \E i \in 1..Len(recent_hits) : hit_id(recent_hits[i]) \in StoredIds

\* C4: with a state, a fetched count equal to the stored one and no
\* --full-fetch, detect_new returns no new hit and the stored known ids, and
\* issues the count query only.
C4_UnchangedIdempotent ==
  (Returned /\ current_count = state.total_count /\ ~args.full_fetch)
    => /\ new_hits = << >>
       /\ known_ids = StoredIds
       /\ calls = << "count" >>

C4_Witness ==
  /\ Returned
  /\ current_count = state.total_count
  /\ ~args.full_fetch
  /\ StoredIds # {}

\* C5 as stated: on a run without persisted state detect_new returns no new
\* hit, main returns without a delivery, and the known_ids it persists are the
\* ids hit_id gives for the enumerated hits.
C5_SeedingNeverNotifies ==
  [][(pc = "save" /\ state.status = "absent")
       => /\ new_hits = << >>
          /\ pc' = "idle"
          /\ Range(state_file'.known_ids) = IdsOf(all_hits)]_vars

\* C5, amended: ... and the known_ids it persists are the non-empty ids hit_id
\* gives for the enumerated hits.
C5_SeedingNeverNotifiesNonEmptyIds ==
  [][(pc = "save" /\ state.status = "absent")
       => /\ new_hits = << >>
          /\ pc' = "idle"
          /\ Range(state_file'.known_ids) = IdsOf(all_hits) \ {""}]_vars

C5_Witness ==
  /\ pc = "save"
  /\ state.status = "absent"
  /\ args.webhook_url /\ ~args.dry_run
  /\ Len(all_hits) = 2
  /\ "" \in IdsOf(all_hits)

\* C6: on the full-enumeration path with stored known ids K and enumerated ids
\* A, the new hits are hits of the enumeration with ids exactly A \ K, and the
\* returned known ids are K \cup A.
C6_FallbackCorrect ==
  (Returned /\ "all" \in Range(calls))
    => /\ Range(new_hits) \subseteq Range(all_hits)
       /\ IdsOf(new_hits) = IdsOf(all_hits) \ StoredIds
       /\ known_ids = StoredIds \cup IdsOf(all_hits)

C6_Witness ==
  /\ Returned
  /\ "all" \in Range(calls)
  /\ IdsOf(all_hits) \cap StoredIds # {}
  /\ IdsOf(all_hits) \ StoredIds # {}

Attempted == [i \in 1..Len(log) |-> log[i].hit]

RECURSIVE Failures(_)
Failures(l) ==
  IF l = << >> THEN << >>
  ELSE IF Head(l).ok THEN Failures(Tail(l))
       ELSE << Head(l).hit >> \o Failures(Tail(l))

Drained ==
  /\ Attempted = startPending
  /\ pending_file = IF Failures(log) = << >> THEN [status |-> "absent", items |-> << >>]
                    ELSE [status |-> "ok", items |-> Failures(log)]

\* C7 as stated: in every run that starts with a persisted pending batch, no
\* catalog query is issued before every item of the batch has been offered to
\* the sink, and the persisted batch is then deleted or holds exactly the items
\* whose delivery failed.
C7_DrainPrecedesDetection ==
  /\ pc \in {"drain", "detect"} => calls = << >>
  /\ (pc = "detect" /\ startPending # << >>) => Drained

\* C7, amended: ... in every run with a webhook URL and without --dry-run that
\* starts with a persisted pending batch ...
C7_DrainPrecedesDetectionWhenDelivering ==
  /\ pc \in {"drain", "detect"} => calls = << >>
  /\ (pc = "detect" /\ args.webhook_url /\ ~args.dry_run /\ startPending # << >>)
       => Drained

C7_Witness ==
  /\ pc = "detect"
  /\ args.webhook_url /\ ~args.dry_run
  /\ Len(startPending) = 2
  /\ Len(Failures(log)) = 1

\* C8 as stated: the ids of the new hits are persisted before the first
\* delivery of one of them is attempted, and no later run's detect_new returns
\* as new an id that a run killed after save_state had saved.
C8_CrashSafety ==
  /\ pc = "deliver" => IdsOf(new_hits) \subseteq StoredIds
  /\ pc = "save" => IdsOf(new_hits) \cap crashSaved = {}

\* C8, amended: ... returns as new an id that a run killed after save_state had
\* saved, unless a force-seed run in between has rebuilt the known ids without it.
C8_CrashSafetyUntilReseed ==
  /\ pc = "deliver" => IdsOf(new_hits) \subseteq StoredIds
  /\ pc = "save" => IdsOf(new_hits) \cap (crashSaved \ reseedDropped) = {}

C8_Witness ==
  /\ pc = "save"
  /\ new_hits # << >>
  /\ crashSaved # {}
  /\ reseedDropped = {}
  /\ crashSaved \subseteq IdsOf(recent_hits) \cup IdsOf(all_hits)

WindowUnknown == SelectSeq(recent_hits, LAMBDA h : hit_id(h) \notin StoredIds)

\* C9: with a state whose last_run_timestamp is positive, no --full-fetch, a
\* changed count and a window query that returns a hit with an unknown id,
\* detect_new returns exactly the window hits with unknown ids and the stored
\* known ids plus theirs, after the count and the window query only.
C9_WindowPath ==
  ( /\ pc \in {"save", "full"}
    /\ state.status = "ok"
    /\ state.last_run_timestamp > 0
    /\ ~args.full_fetch
    /\ current_count # state.total_count
    /\ WindowUnknown # << >> )
    => /\ pc = "save"
       /\ new_hits = WindowUnknown
       /\ known_ids = StoredIds \cup IdsOf(WindowUnknown)
       /\ calls = << "count", "since" >>

C9_Witness ==
  /\ Returned
  /\ current_count > state.total_count
  /\ Len(new_hits) = 2
  /\ Cardinality(IdsOf(new_hits)) = 2
  /\ calls = << "count", "since" >>

\* C10 as stated: with a state and a fetched count below the stored one,
\* detect_new returns no new hit and the stored known ids, and the run persists
\* the lower count.
C10_CountDecrease ==
  /\ [](Returned /\ current_count < state.total_count
          => new_hits = << >> /\ known_ids = StoredIds)
  /\ [][(Returned /\ current_count < state.total_count)
          => state_file'.total_count = current_count]_vars

\* C10, amended: ... and no query of the run returned a hit with an unknown
\* id, detect_new returns no new hit and the stored known ids; the run persists
\* the lower count in any case.
C10_CountDecreaseNothingUnknown ==
  /\ []((Returned /\ current_count < state.total_count
           /\ IdsOf(recent_hits) \cup IdsOf(all_hits) \subseteq StoredIds)
          => new_hits = << >> /\ known_ids = StoredIds)
  /\ [][(Returned /\ current_count < state.total_count)
          => state_file'.total_count = current_count]_vars

C10_Witness ==
  /\ Returned
  /\ current_count < state.total_count
  /\ recent_hits # << >>
  /\ IdsOf(recent_hits) \subseteq StoredIds
  /\ new_hits = << >>

\* the run returns or exits by itself with the code main gives
RunEnds(code) == pc # "idle" /\ pc' = "idle" /\ exit_code' = code

\* a hit whose delivery failed in this run and that the pending file holds when
\* the run ends
FailedAndPersisted ==
  \E h \in Range(retryFailed) \cup (IF pc = "deliver" THEN Range(failed) ELSE {}) :
    h \in Range(pending_file'.items)

\* C11: a run exits 1 whenever a delivery of the run, from the pending batch or
\* of a new hit, failed and is persisted as pending, and whenever detection is
\* aborted; it exits 0 only when neither happened.
C11_ExitCodes ==
  [][/\ RunEnds(0) => ~FailedAndPersisted
     /\ RunEnds(1) => (FailedAndPersisted \/ pc \in {"detect", "seed", "count_check", "window", "full"})]_vars

\* C12: a run started with --seed offers nothing to the sink, from the pending
\* batch or from the enumeration, whatever the other options are.
C12_ForceSeedNeverDelivers == args.seed => log = << >>

\* C13 as stated: whatever a run does (normal, --full-fetch, --dry-run,
\* --seed), every id of the persisted known_ids is still in the persisted
\* known_ids afterwards.
C13_KnownIdsOnlyGrow ==
  [][Range(state_file.known_ids) \subseteq Range(state_file'.known_ids)]_vars

\* C13, amended: whatever a run without --seed does, every id of the persisted
\* known_ids is still in the persisted known_ids afterwards, also when the
\* catalog no longer returns it.
C13_KnownIdsOnlyGrowWithoutSeed ==
  [][~args.seed => Range(state_file.known_ids) \subseteq Range(state_file'.known_ids)]_vars

C13_Witness ==
  /\ Returned
  /\ "all" \in Range(calls)
  /\ StoredIds \ IdsOf(all_hits) # {}
  /\ IdsOf(all_hits) \ StoredIds # {}

\* C14: on the seed, the window and the full-fetch path, detect_new returns no
\* record whose hit_id is the empty string, and the empty string is not in the
\* known ids it returns.
C14_NoEmptyId ==
  pc = "save" => ("" \notin IdsOf(new_hits) /\ "" \notin known_ids)

\* C15: detect_new returns one new entity per previously unknown id, also when
\* the window query or the enumeration returned several records with that id.
C15_DuplicatesCollapse ==
  pc = "save" => Len(new_hits) = Cardinality(IdsOf(new_hits))

\* C16: on a run without persisted state, the current_count detect_new returns
\* (which main persists as total_count) is the value fetch_count returned, which
\* is the total_count seed has just saved.
C16_SeedCount ==
  (pc = "save" /\ state.status = "absent") => current_count = state_file.total_count

\* C18: a run whose load_state meets an unparseable state file ends there with
\* a nonzero exit and is not seeded again, and a run that ends with a nonzero
\* exit during seeding or detection (a catalog query failed after its retries)
\* has not called save_state: the state file is what it was when the run
\* started.
C18_FailedRunLeavesState ==
  [][/\ (pc = "detect" /\ ~args.seed /\ state_file.status = "corrupt")
          => (pc' = "idle" /\ exit_code' # 0 /\ state_file' = state_file)
     /\ pc \in {"idle", "drain", "detect", "count_check", "window", "full"}
          => state_file' = state_file
     /\ (pc = "seed" /\ pc' = "idle" /\ exit_code' # 0) => state_file' = state_file]_vars

C18_Witness ==
  /\ pc = "idle"
  /\ exit_code = 1
  /\ state_file.status = "corrupt"
  /\ pending_file.status = "ok"

\* C19: in a run with a state, detect_new goes to the full enumeration exactly
\* when --full-fetch is set, or the count changed and last_run_timestamp <= 0,
\* or the count increased and the window query returned no unknown id; it
\* issues the window query exactly when --full-fetch is not set, the count
\* changed and last_run_timestamp > 0.
C19_PathSelection ==
  (pc \in {"full", "save"} /\ state.status = "ok")
    => LET changed == current_count # state.total_count
           full    == pc = "full" \/ "all" \in Range(calls)
           window  == "since" \in Range(calls)
       IN  /\ full <=> \/ args.full_fetch
                       \/ (changed /\ state.last_run_timestamp <= 0)
                       \/ (current_count > state.total_count /\ window
                             /\ WindowUnknown = << >>)
           /\ window <=> (~args.full_fetch /\ changed /\ state.last_run_timestamp > 0)

C19_Witness ==
  /\ Returned
  /\ calls = << "count", "since", "all" >>
  /\ new_hits # << >>

Touched(ids) ==
  /\ ids \cap IdsOf(pending_file.items) = {}
  /\ ids \cap IdsOf(todo) = {}
  /\ ids \cap IdsOf(Attempted) = {}
  /\ pc = "save" => ids \cap IdsOf(new_hits) = {}

QuietRun == ~(args.webhook_url /\ ~args.dry_run)

\* C20 as stated: a run with --dry-run or without a webhook URL attempts no
\* delivery and neither reads nor writes the pending batch, its save_state
\* persists the ids of the new hits, and no later run returns an entity with
\* such an id as new, queues it as pending or offers it to the sink.
C20_StateAdvancesUndelivered ==
  /\ [](QuietRun => log = << >> /\ pending = << >>)
  /\ [][QuietRun => pending_file' = pending_file]_vars
  /\ [][(pc = "save" /\ QuietRun)
          => (pc' = "idle" /\ IdsOf(new_hits) \subseteq Range(state_file'.known_ids))]_vars
  /\ []Touched(crashSaved)

\* C20, amended: ... and no later run returns an entity with such an id as
\* new, queues it as pending or offers it to the sink, unless the pending batch
\* held it already or a force-seed run in between has rebuilt the known ids
\* without it.
C20_StateAdvancesUndeliveredUntilReseed ==
  /\ [](QuietRun => log = << >> /\ pending = << >>)
  /\ [][QuietRun => pending_file' = pending_file]_vars
  /\ [][(pc = "save" /\ QuietRun)
          => (pc' = "idle" /\ IdsOf(new_hits) \subseteq Range(state_file'.known_ids))]_vars
  /\ []Touched(crashSaved \ reseedDropped)

C20_Witness ==
  /\ pc = "save"
  /\ args.webhook_url /\ ~args.dry_run
  /\ crashSaved # {}
  /\ reseedDropped = {}
  /\ crashSaved \subseteq IdsOf(recent_hits) \cup IdsOf(all_hits)
  /\ new_hits # << >>

\* C17: at every instant, also after a kill inside save_state, the state file
\* is absent or holds a complete record.
C17_AtomicStateSave == state_file.status \in {"absent", "ok"}

====
